---- MODULE Spec2Model ----
(***************************************************************************)
(* The tracing wrappers of startower-observability/orb around a RabbitMQ   *)
(* channel: Consumer.ConsumeWithHandler / ProcessDelivery / processDelivery*)
(* and Publisher.Publish / PublishWithConfirm.                             *)
(*                                                                         *)
(* One application goroutine (a caller) invokes the wrappers; every        *)
(* successful ConsumeWithHandler spawns the background goroutine of its    *)
(* stream.  The broker client (deliveries channel, Ack, Nack, the send)    *)
(* and the user handler are the environment: their results are chosen      *)
(* nondeterministically.                                                   *)
(***************************************************************************)
EXTENDS Integers, Sequences, FiniteSets, TLC

\* Number of deliveries the underlying client yields on one stream at most.
MaxDeliveries == 2

Streams == {"s1"}
Callers == {"main"}
\* Goroutines of the application that publish side by side.
Publishers == {"p1", "p2"}
\* The background goroutine of a stream is named by the stream.
Threads == Callers \cup Streams \cup Publishers

----------------------------------------------------------------------------
(* Go error values: a chain of layers, outermost first; nil is the empty   *)
(* chain.  fmt.Errorf("prefix: %w", e) puts a layer in front of e, and     *)
(* Error() yields the texts of the layers joined by ": ".                  *)

Nil == << >>
NewError(id, text) == << [id |-> id, text |-> text] >>
Errorf(prefix, e) == << [id |-> "fmt.wrapError", text |-> prefix] >> \o e
ErrorString(e) == [i \in 1..Len(e) |-> e[i].text]

HandlerErrs == { NewError("ErrHandler", "handler failed") }
AckErrs     == { NewError("ErrAck", "ack: channel closed") }
NackErrs    == { NewError("ErrNack", "nack: channel closed") }
OpenErrs    == { NewError("ErrOpen", "consume: access refused") }
SendErrs    == { NewError("ErrClosed", "channel/connection is not open"),
                 NewError("ErrTimeout", "context deadline exceeded") }

----------------------------------------------------------------------------
(* The span a Tracer.Start returns, as far as the wrappers use it.         *)

NewSpan == [starts |-> 0, ends |-> 0, code |-> "Unset", desc |-> << >>,
            recorded |-> << >>, sets |-> 0]
NilSpan == [nil |-> TRUE]

TracerStart(span) == [span EXCEPT !.starts = @ + 1]
SpanEnd(span) == [span EXCEPT !.ends = @ + 1]
RecordError(span, e) == [span EXCEPT !.recorded = Append(@, e)]
SetStatus(span, code, desc) ==
    [span EXCEPT !.code = code, !.desc = desc, !.sets = @ + 1]

SafeSetSpanStatus_OkAlways(span, err) ==
    IF span = NilSpan THEN span ELSE SetStatus(span, "Ok", << >>)

SafeSetSpanStatus(span, err) ==
    IF span = NilSpan
    THEN span
    ELSE IF err # Nil
         THEN SetStatus(RecordError(span, err), "Error", ErrorString(err))
         ELSE SetStatus(span, "Ok", << >>)

\* defer span.End(): runs on every path out of the function.
DeferredEnd_SuccessOnly(span, err) == IF err = Nil THEN SpanEnd(span) ELSE span

DeferredEnd(span, err) == SpanEnd(span)

----------------------------------------------------------------------------
(* Strings are sequences of tokens, "" is the empty sequence, so that      *)
(* formatting and parsing are computed and not assumed.                    *)

EmptyString == << >>

(* amqp091.Table: a Go map from header name to a value of any type; a nil  *)
(* map reads as empty and cannot be written.                               *)

EmptyMap == [k \in {} |-> 0]
NilTable == [nil |-> TRUE, m |-> EmptyMap]
MakeTable == [nil |-> FALSE, m |-> EmptyMap]
TableOf(m) == [nil |-> FALSE, m |-> m]

StringValue(s) == [type |-> "string", val |-> s]
IntValue(s) == [type |-> "int", val |-> s]

\* HeaderCarrier.Get: the value when present and a string, else "".
Get_AnyType(m, key) == IF key \in DOMAIN m THEN m[key].val ELSE EmptyString

Get(m, key) ==
    IF key \in DOMAIN m /\ m[key].type = "string" THEN m[key].val ELSE EmptyString

\* HeaderCarrier.Set: hc[key] = value
Set(m, key, value) ==
    [k \in DOMAIN m \cup {key} |-> IF k = key THEN StringValue(value) ELSE m[k]]

\* HeaderCarrier.Keys: the keys of the map, in the order the range yields them.
Keys(m) ==
    { ks \in [1..Cardinality(DOMAIN m) -> DOMAIN m] :
          \A i, j \in 1..Cardinality(DOMAIN m) : i # j => ks[i] # ks[j] }

----------------------------------------------------------------------------
(* context.Context as far as tracing reads it: the span context it carries *)
(* (an all-zero id is ""), and tag, which stands for everything else the   *)
(* caller put into it.                                                     *)

Background ==
    [traceID |-> "", spanID |-> "", sampled |-> FALSE, tracestate |-> EmptyString,
     remote |-> FALSE, tag |-> "background"]

IsValid(ctx) == ctx.traceID # "" /\ ctx.spanID # ""

\* Tracer.Start: a new span, child of the span ctx carries, in the derived context.
StartContext(ctx) ==
    [ctx EXCEPT !.traceID = IF IsValid(ctx) THEN @ ELSE "t-new",
                !.spanID = "s-new",
                !.sampled = IF IsValid(ctx) THEN @ ELSE TRUE,
                !.remote = FALSE]

(* The process-wide TextMapPropagator, otel.GetTextMapPropagator(): the    *)
(* no-op propagator until the application sets one, or W3C trace context.  *)

Propagators == {"noop", "tracecontext"}

TraceParentKey == "traceparent"
TraceStateKey == "tracestate"

FormatTraceParent(ctx) ==
    << "00", ctx.traceID, ctx.spanID, IF ctx.sampled THEN "01" ELSE "00" >>

WellFormedTraceParent(h) ==
    /\ Len(h) = 4
    /\ h[1] = "00"
    /\ h[2] \notin {"", "zz"}
    /\ h[3] \notin {"", "zz"}
    /\ h[4] \in {"00", "01"}

PropagatorInject(p, ctx, m) ==
    IF p = "noop" \/ ~IsValid(ctx)
    THEN m
    ELSE LET m1 == IF ctx.tracestate # EmptyString
                   THEN Set(m, TraceStateKey, ctx.tracestate)
                   ELSE m
         IN  Set(m1, TraceParentKey, FormatTraceParent(ctx))

PropagatorExtract(p, ctx, m) ==
    LET h == Get(m, TraceParentKey) IN
    IF p = "noop" \/ ~WellFormedTraceParent(h)
    THEN ctx
    ELSE [ctx EXCEPT !.traceID = h[2], !.spanID = h[3],
                     !.sampled = (h[4] = "01"),
                     !.tracestate = Get(m, TraceStateKey),
                     !.remote = TRUE]

\* internal.InjectContext: nothing on a nil map.
InjectContext_Replace(p, ctx, headers) ==
    IF headers.nil THEN headers ELSE TableOf(PropagatorInject(p, ctx, EmptyMap))

InjectContext(p, ctx, headers) ==
    IF headers.nil THEN headers ELSE TableOf(PropagatorInject(p, ctx, headers.m))

\* internal.ExtractContext: ctx itself on a nil map.
ExtractContext_NoNilCheck(p, ctx, headers) ==
    IF headers.nil THEN Background ELSE PropagatorExtract(p, ctx, headers.m)

ExtractContext(p, ctx, headers) ==
    IF headers.nil THEN ctx ELSE PropagatorExtract(p, ctx, headers.m)

InjectToPublishing_NoCreate(p, ctx, headers) == InjectContext(p, ctx, headers)

\* Propagator.InjectToPublishing: the publishing's map is created when nil.
InjectToPublishing(p, ctx, headers) ==
    InjectContext(p, ctx, IF headers.nil THEN MakeTable ELSE headers)

\* Propagator.InjectToHeaders
InjectToHeaders_Create(p, ctx, headers) == InjectToPublishing(p, ctx, headers)

InjectToHeaders(p, ctx, headers) == InjectContext(p, ctx, headers)

\* Propagator.ExtractFromDelivery
ExtractFromDelivery(p, ctx, headers) == ExtractContext(p, ctx, headers)

----------------------------------------------------------------------------
(* internal: the attribute builders.  An attribute is << key, value >>.    *)

MessagingSystem == "messaging.system"
MessagingDestinationKind == "messaging.destination_kind"
MessagingDestination == "messaging.destination"
MessagingRabbitMQRoutingKey == "messaging.rabbitmq.routing_key"
MessagingOperation == "messaging.operation"
MessagingMessageID == "messaging.message_id"
MessagingConversationID == "messaging.conversation_id"
SystemRabbitMQ == "rabbitmq"
DestinationKindQueue == "queue"
DestinationKindTopic == "topic"
OperationPublish == "publish"
OperationReceive == "receive"

AppendIf(cond, attrs, a) == IF cond THEN Append(attrs, a) ELSE attrs

GetCommonAttributes_NoGuard(exchange, routingKey) ==
    LET a0 == << << MessagingSystem, SystemRabbitMQ >> >>
        a1 == IF exchange # ""
              THEN a0 \o << << MessagingDestination, exchange >>,
                            << MessagingDestinationKind, DestinationKindTopic >> >>
              ELSE a0 \o << << MessagingDestinationKind, DestinationKindQueue >>,
                            << MessagingDestination, routingKey >> >>
    IN  AppendIf(routingKey # "", a1, << MessagingRabbitMQRoutingKey, routingKey >>)

GetCommonAttributes(exchange, routingKey) ==
    LET a0 == << << MessagingSystem, SystemRabbitMQ >> >>
        a1 == IF exchange # ""
              THEN a0 \o << << MessagingDestination, exchange >>,
                            << MessagingDestinationKind, DestinationKindTopic >> >>
              ELSE AppendIf(routingKey # "",
                            Append(a0, << MessagingDestinationKind, DestinationKindQueue >>),
                            << MessagingDestination, routingKey >>)
    IN  AppendIf(routingKey # "", a1, << MessagingRabbitMQRoutingKey, routingKey >>)

GetPublishAttributes(exchange, routingKey, messageId, correlationId) ==
    LET a0 == Append(GetCommonAttributes(exchange, routingKey),
                     << MessagingOperation, OperationPublish >>)
        a1 == AppendIf(messageId # "", a0, << MessagingMessageID, messageId >>)
    IN  AppendIf(correlationId # "", a1, << MessagingConversationID, correlationId >>)

GetConsumeAttributes(queueName, routingKey, messageId, correlationId) ==
    LET a0 == << << MessagingSystem, SystemRabbitMQ >>,
                 << MessagingDestinationKind, DestinationKindQueue >>,
                 << MessagingOperation, OperationReceive >> >>
        a1 == AppendIf(queueName # "", a0, << MessagingDestination, queueName >>)
        a2 == AppendIf(routingKey # "", a1, << MessagingRabbitMQRoutingKey, routingKey >>)
        a3 == AppendIf(messageId # "", a2, << MessagingMessageID, messageId >>)
    IN  AppendIf(correlationId # "", a3, << MessagingConversationID, correlationId >>)

----------------------------------------------------------------------------
(* Span names: fmt.Sprintf("%s publish", x) is << x, "publish" >>.         *)

defaultPublishSpanName_RoutingKeyFirst(exchange, routingKey) ==
    IF routingKey # "" THEN << routingKey, "publish" >>
    ELSE IF exchange # "" THEN << exchange, "publish" >>
    ELSE << "rabbitmq", "publish" >>

defaultPublishSpanName(exchange, routingKey) ==
    IF exchange # "" THEN << exchange, "publish" >>
    ELSE IF routingKey # "" THEN << routingKey, "publish" >>
    ELSE << "rabbitmq", "publish" >>

defaultConsumeSpanName(queueName, routingKey) ==
    IF queueName # "" THEN << queueName, "receive" >>
    ELSE IF routingKey # "" THEN << routingKey, "receive" >>
    ELSE << "rabbitmq", "receive" >>

\* A formatter the application configures (the README's).
CustomPublishSpanName(exchange, routingKey) == << "publish to", exchange >>
CustomConsumeSpanName(queueName, routingKey) == << "process from", queueName >>

\* The SpanNameFormatter of a configuration: nil, or the application's.
Formatters == {"nil", "custom"}

\* NewPublisher / NewConsumer: a nil SpanNameFormatter becomes the default.
PublishSpanName(formatter, exchange, routingKey) ==
    IF formatter = "nil"
    THEN defaultPublishSpanName(exchange, routingKey)
    ELSE CustomPublishSpanName(exchange, routingKey)

ConsumeSpanName(formatter, queueName, routingKey) ==
    IF formatter = "nil"
    THEN defaultConsumeSpanName(queueName, routingKey)
    ELSE CustomConsumeSpanName(queueName, routingKey)

----------------------------------------------------------------------------
(* Span-start options: trace.WithSpanKind and one trace.WithAttributes per *)
(* attribute, then whatever the configured AttributeEnricher returns.      *)

WithSpanKind(kind) == [opt |-> "kind", key |-> "span.kind", val |-> kind]
WithAttributes(a) == [opt |-> "attr", key |-> a[1], val |-> a[2]]

BaseOptions(kind, attrs) ==
    << WithSpanKind(kind) >> \o [i \in 1..Len(attrs) |-> WithAttributes(attrs[i])]

\* The AttributeEnricher of the configuration: nil, one that adds keys of
\* its own, one that also supplies a key the attribute builder emits.
Enrichers == {"nil", "custom", "override"}

EnricherOptions(enricher) ==
    CASE enricher = "nil" -> << >>
      [] enricher = "custom" ->
            << WithAttributes(<< "service.name", "order-service" >>) >>
      [] enricher = "override" ->
            << WithAttributes(<< "service.name", "order-service" >>),
               WithAttributes(<< MessagingSystem, "custom-mq" >>) >>

\* spanOpts = append(spanOpts, customOpts...)
SpanOptions(kind, attrs, enricher) ==
    BaseOptions(kind, attrs) \o EnricherOptions(enricher)

\* Tracer.Start(ctx, name, opts...): the options apply in order, a later
\* value of an attribute key replaces an earlier one.
StartedAttributes(opts) ==
    LET idx(k) == { i \in 1..Len(opts) : opts[i].opt = "attr" /\ opts[i].key = k }
        last(k) == CHOOSE i \in idx(k) : \A j \in idx(k) : j <= i
    IN  [k \in { opts[i].key : i \in { j \in 1..Len(opts) : opts[j].opt = "attr" } }
            |-> opts[last(k)].val]

\* PublisherConfig / ConsumerConfig after NewPublisher / NewConsumer, and the
\* process-wide propagator.
DefaultConfig == [propagator |-> "noop", formatter |-> "nil", enricher |-> "nil"]
Configs == [propagator : Propagators, formatter : Formatters, enricher : Enrichers]

\* The arguments of a Publish call; hasMap: msg.Headers is the caller's map.
DefaultPublishInput ==
    [ctx |-> Background, exchange |-> "", routingKey |-> "", messageId |-> "",
     correlationId |-> "", hasMap |-> FALSE]

\* The arguments of a processDelivery call.
DefaultDeliveryInput ==
    [ctx |-> Background, queueName |-> "", routingKey |-> "", messageId |-> "",
     correlationId |-> "", headers |-> NilTable]

\* channel.Publish takes no context and sends under context.Background();
\* channel.PublishWithDeferredConfirmWithContext takes the derived one.
SendContext(op, ctx) == IF op = "confirm" THEN ctx ELSE Background

NotSent == [called |-> FALSE, ctx |-> Background, headers |-> NilTable]

----------------------------------------------------------------------------
VARIABLES
    pc,      \* pc[t]: where thread t is
    cur,     \* cur[t]: the wrapper invocation thread t runs, or ran last
    stream,  \* stream[s]: the ConsumeWithHandler invocation of stream s
    carrier, \* a HeaderCarrier under Set, Get and Keys calls
    prop,    \* a Propagator call sequence: inject, then extract
    attr,    \* calls of the attribute builder and the span-name formatters
    config,  \* the configuration captured at construction
    heap     \* heap[t]: the header map thread t owns and passes in messages

\* The variables of the calls of the pure helpers.
lab == << carrier, prop, attr >>

\* The variables of the wrapper invocations.
calls == << pc, cur, stream, config, heap >>

vars == << pc, cur, stream, carrier, prop, attr, config, heap >>

\* The value of a helper variable while no helper call is followed.
NoLab == [phase |-> "off"]

NoCall ==
    [ op         |-> "none",    \* "process", "publish", "confirm", "consume"
      via        |-> "none",    \* "stream" or "direct" for op = "process"
      delivery   |-> 0,         \* number of the delivery within its stream
      autoAck    |-> FALSE,
      handlerNil |-> FALSE,
      err        |-> Nil,       \* the local variable err
      handlerErr |-> Nil,       \* what the handler returned
      ackErr     |-> Nil,       \* what the Ack or the Nack call returned
      sendErr    |-> Nil,       \* what the underlying send returned
      handlerCalls |-> 0,
      acks       |-> 0,
      nacks      |-> 0,
      requeue    |-> {},        \* the requeue arguments of the Nack calls
      span       |-> NewSpan,
      trace      |-> << >>,     \* the calls made, in order
      confirmation |-> "none",
      in         |-> DefaultPublishInput,   \* the arguments of the call
      ctx        |-> Background,  \* the local variable ctx
      spanName   |-> << >>,
      spanOpts   |-> << >>,
      spanAttrs  |-> EmptyMap,    \* the attributes of the started span
      headers    |-> NilTable,    \* msg.Headers of the local msg
      callerMap  |-> MakeTable,   \* the caller's header map as the call found it
      sent       |-> NotSent,     \* what the underlying send was given
      returned   |-> FALSE,
      ret        |-> Nil ]

NoStream ==
    [ state      |-> "unopened",   \* "open", "failed"
      autoAck    |-> FALSE,
      handlerNil |-> FALSE,
      opens      |-> 0,         \* calls of channel.ConsumeWithContext
      tasks      |-> 0,         \* background goroutines spawned
      yielded    |-> 0,         \* deliveries the client put on the channel
      received   |-> 0,         \* deliveries the loop took from the channel
      closed     |-> FALSE,     \* the client closed the channel
      handled    |-> << >>,     \* deliveries handed to processDelivery, in order
      completed  |-> 0,         \* processDelivery calls that returned
      failed     |-> {},        \* deliveries whose handler returned an error
      ret        |-> Nil ]

NoHeap == [t \in Callers \cup Publishers |-> MakeTable]

InitThreads ==
    /\ pc = [t \in Threads |-> IF t \in Callers THEN "idle" ELSE "none"]
    /\ cur = [t \in Threads |-> NoCall]
    /\ stream = [s \in Streams |-> NoStream]

InitCalls ==
    /\ InitThreads
    /\ config = DefaultConfig
    /\ heap = NoHeap

Init ==
    /\ InitCalls
    /\ carrier = NoLab
    /\ prop = NoLab
    /\ attr = NoLab

----------------------------------------------------------------------------
(* Consumer.ConsumeWithHandler                                             *)

SpawnsTask_Always(openErr) == TRUE

\* The goroutine is started only after the open succeeded (lines 57-61).
SpawnsTask(openErr) == openErr = Nil

ConsumeReturn(openErr) ==
    IF openErr # Nil THEN Errorf("failed to start consuming", openErr) ELSE Nil

ConsumeWithHandler(c, s, autoAck, handlerNil, openErr) ==
    /\ pc[c] = "idle"
    /\ UNCHANGED << lab, config, heap >>
    /\ stream[s].state = "unopened"
    /\ stream' = [stream EXCEPT ![s] =
          [@ EXCEPT !.state = IF openErr = Nil THEN "open" ELSE "failed",
                    !.autoAck = autoAck,
                    !.handlerNil = handlerNil,
                    !.opens = @ + 1,
                    !.tasks = IF SpawnsTask(openErr) THEN @ + 1 ELSE @,
                    !.ret = ConsumeReturn(openErr)]]
    /\ pc' = [pc EXCEPT ![s] = IF SpawnsTask(openErr) THEN "recv" ELSE @]
    /\ cur' = [cur EXCEPT ![c] =
          [NoCall EXCEPT !.op = "consume", !.returned = TRUE,
                         !.ret = ConsumeReturn(openErr)]]

----------------------------------------------------------------------------
(* The underlying client: it yields deliveries on the channel of an open   *)
(* stream and closes the channel.                                          *)

Pending(s) == stream[s].yielded - stream[s].received

Yield(s) ==
    /\ stream[s].state = "open"
    /\ UNCHANGED << lab, config, heap >>
    /\ ~stream[s].closed
    /\ stream[s].yielded < MaxDeliveries
    /\ stream' = [stream EXCEPT ![s].yielded = @ + 1]
    /\ UNCHANGED << pc, cur >>

Close(s) ==
    /\ stream[s].state = "open"
    /\ UNCHANGED << lab, config, heap >>
    /\ ~stream[s].closed
    /\ stream' = [stream EXCEPT ![s].closed = TRUE]
    /\ UNCHANGED << pc, cur >>

----------------------------------------------------------------------------
(* Consumer.processDelivery, lines 87-106: extract, span name, options,    *)
(* Tracer.Start, defer span.End().                                         *)

BeginDelivery(via, n, autoAck, handlerNil, in) ==
    LET ctx == ExtractFromDelivery(config.propagator, in.ctx, in.headers)
        spanName == ConsumeSpanName(config.formatter, in.queueName, in.routingKey)
        attrs == GetConsumeAttributes(in.queueName, in.routingKey,
                                      in.messageId, in.correlationId)
        spanOpts == SpanOptions("consumer", attrs, config.enricher)
    IN  [NoCall EXCEPT !.op = "process", !.via = via, !.delivery = n,
                       !.autoAck = autoAck, !.handlerNil = handlerNil,
                       !.in = in,
                       !.spanName = spanName,
                       !.spanOpts = spanOpts,
                       !.spanAttrs = StartedAttributes(spanOpts),
                       !.ctx = StartContext(ctx),
                       !.headers = in.headers,
                       !.span = TracerStart(NewSpan),
                       !.trace = << "SpanStart" >>]

\* The order of the steps of processDelivery after the span started.
PDOrder_StatusBeforeAck == << "handler", "status", "ack", "end" >>

PDOrder == << "handler", "ack", "status", "end" >>

PDFirst == PDOrder[1]
PDAfter(p) ==
    LET i == CHOOSE k \in 1..Len(PDOrder) : PDOrder[k] = p
    IN  IF i < Len(PDOrder) THEN PDOrder[i + 1] ELSE "return"

\* for delivery := range deliveries: the next value of the channel.
NextDelivery_Newest(s) == stream[s].yielded

NextDelivery(s) == stream[s].received + 1

TaskRecv(s) ==
    /\ pc[s] = "recv"
    /\ UNCHANGED << lab, config, heap >>
    /\ Pending(s) > 0
    /\ LET n == NextDelivery(s) IN
       /\ stream' = [stream EXCEPT ![s].received = n,
                                   ![s].handled = Append(@, n)]
       /\ cur' = [cur EXCEPT ![s] =
             BeginDelivery("stream", n, stream[s].autoAck, stream[s].handlerNil,
                           DefaultDeliveryInput)]
    /\ pc' = [pc EXCEPT ![s] = PDFirst]

\* The range loop ends when the channel is closed and drained.
LoopExits_WhenEmpty(s) == Pending(s) = 0

LoopExits(s) == stream[s].closed /\ Pending(s) = 0

TaskExit(s) ==
    /\ pc[s] = "recv"
    /\ UNCHANGED << lab, config, heap >>
    /\ LoopExits(s)
    /\ pc' = [pc EXCEPT ![s] = "done"]
    /\ UNCHANGED << cur, stream >>

(* Consumer.ProcessDelivery passes autoAck = false (line 76).              *)
ProcessDeliveryAutoAck_True == TRUE

ProcessDeliveryAutoAck == FALSE

\* return nil (line 77): processDelivery has no result to pass on.
ProcessDeliveryReturn_Err(err) == err

ProcessDeliveryReturn(err) == Nil

ProcessDelivery(c, handlerNil, in) ==
    /\ pc[c] = "idle"
    /\ UNCHANGED << lab, config, heap >>
    /\ cur' = [cur EXCEPT ![c] =
          BeginDelivery("direct", 0, ProcessDeliveryAutoAck, handlerNil, in)]
    /\ pc' = [pc EXCEPT ![c] = PDFirst]
    /\ UNCHANGED stream

----------------------------------------------------------------------------
(* Consumer.processDelivery, lines 108-127.                                *)

\* lines 108-111: a nil handler is not called.
InvokesHandler_Always(handlerNil) == TRUE

InvokesHandler(handlerNil) == ~handlerNil

PDInvokeHandler(t) ==
    /\ pc[t] = "handler"
    /\ UNCHANGED << lab, config, heap >>
    /\ cur[t].op = "process"
    /\ IF ~InvokesHandler(cur[t].handlerNil)
       THEN /\ pc' = [pc EXCEPT ![t] = PDAfter("handler")]
            /\ UNCHANGED cur
       ELSE /\ pc' = [pc EXCEPT ![t] = "inHandler"]
            /\ cur' = [cur EXCEPT ![t].handlerCalls = @ + 1,
                                  ![t].trace = Append(@, "Handler")]
    /\ UNCHANGED stream

PDHandlerReturn(t, e) ==
    /\ pc[t] = "inHandler"
    /\ UNCHANGED << lab, config, heap >>
    /\ cur' = [cur EXCEPT ![t].err = e,
                          ![t].handlerErr = e,
                          ![t].trace = Append(@, "HandlerReturn")]
    /\ stream' = IF t \in Streams /\ e # Nil
                 THEN [stream EXCEPT ![t].failed = @ \cup {cur[t].delivery}]
                 ELSE stream
    /\ pc' = [pc EXCEPT ![t] = PDAfter("handler")]

\* lines 113-124: which acknowledgment the wrapper issues.
AckDecision_Swapped(autoAck, err) ==
    IF autoAck THEN "none" ELSE IF err # Nil THEN "ack" ELSE "nack"

AckDecision(autoAck, err) ==
    IF autoAck THEN "none" ELSE IF err # Nil THEN "nack" ELSE "ack"

\* delivery.Nack(false, true)
NackMultiple == FALSE
NackRequeue == TRUE
\* delivery.Ack(false)
AckMultiple == FALSE

\* lines 119-122: a failed Ack becomes err.
ErrAfterAck(err, ackErr) == IF ackErr # Nil THEN ackErr ELSE err

ErrAfterNack_Override(err, nackErr) == IF nackErr # Nil THEN nackErr ELSE err

\* lines 115-117: a failed Nack is recorded, err stays the handler's error.
ErrAfterNack(err, nackErr) == err

PDAck(t, o) ==
    /\ pc[t] = "ack"
    /\ UNCHANGED << lab, config, heap >>
    /\ cur[t].op = "process"
    /\ LET c == cur[t]
           d == AckDecision(c.autoAck, c.err)
       IN  \/ /\ d = "none"
              /\ o = Nil
              /\ UNCHANGED cur
           \/ /\ d = "nack"
              /\ o \in {Nil} \cup NackErrs
              /\ cur' = [cur EXCEPT ![t] =
                    [c EXCEPT !.nacks = @ + 1,
                              !.requeue = @ \cup {NackRequeue},
                              !.ackErr = o,
                              !.span = IF o # Nil
                                       THEN RecordError(@, Errorf("failed to nack message", o))
                                       ELSE @,
                              !.err = ErrAfterNack(c.err, o),
                              !.trace = Append(@, "Nack")]]
           \/ /\ d = "ack"
              /\ o \in {Nil} \cup AckErrs
              /\ cur' = [cur EXCEPT ![t] =
                    [c EXCEPT !.acks = @ + 1,
                              !.ackErr = o,
                              !.span = IF o # Nil
                                       THEN RecordError(@, Errorf("failed to ack message", o))
                                       ELSE @,
                              !.err = ErrAfterAck(c.err, o),
                              !.trace = Append(@, "Ack")]]
    /\ pc' = [pc EXCEPT ![t] = PDAfter("ack")]
    /\ UNCHANGED stream

\* line 126
PDStatus(t) ==
    /\ pc[t] = "status"
    /\ UNCHANGED << lab, config, heap >>
    /\ cur[t].op = "process"
    /\ cur' = [cur EXCEPT ![t].span = SafeSetSpanStatus(@, cur[t].err),
                          ![t].trace = Append(@, "SetStatus")]
    /\ pc' = [pc EXCEPT ![t] = PDAfter("status")]
    /\ UNCHANGED stream

\* The loop body of the goroutine drops the outcome and takes the next delivery.
TaskNextPc_StopOnError(err) == IF err # Nil THEN "done" ELSE "recv"

TaskNextPc(err) == "recv"

\* The deferred span.End() and the return (line 127; line 77 for a direct call).
PDEnd(t) ==
    /\ pc[t] = "end"
    /\ UNCHANGED << lab, config, heap >>
    /\ cur[t].op = "process"
    /\ cur' = [cur EXCEPT ![t].span = DeferredEnd(@, cur[t].err),
                          ![t].trace = Append(@, "SpanEnd"),
                          ![t].returned = TRUE,
                          ![t].ret = ProcessDeliveryReturn(cur[t].err)]
    /\ IF t \in Streams
       THEN /\ stream' = [stream EXCEPT ![t].completed = @ + 1]
            /\ pc' = [pc EXCEPT ![t] = TaskNextPc(cur[t].err)]
       ELSE /\ UNCHANGED stream
            /\ pc' = [pc EXCEPT ![t] = "idle"]

----------------------------------------------------------------------------
(* Publisher.Publish and Publisher.PublishWithConfirm                      *)

\* The order of the steps of Publish after the span started.
PublishOrder_SendFirst == << "send", "inject", "pstatus", "pend" >>

PublishOrder == << "inject", "send", "pstatus", "pend" >>

PublishAfter(p) ==
    LET i == CHOOSE k \in 1..Len(PublishOrder) : PublishOrder[k] = p
    IN  IF i < Len(PublishOrder) THEN PublishOrder[i + 1] ELSE "return"

\* The header map a call of thread c works on when the message carries one.
HeaderSlot_Shared(c) == "p1"

HeaderSlot(c) == c

\* msg.Headers as the call of thread c sees it now.
MsgHeaders(c) ==
    IF cur[c].in.hasMap THEN heap[HeaderSlot(c)] ELSE cur[c].headers

\* lines 247-264 / 285-302: span name, options, Tracer.Start, defer span.End().
PublishStart(c, op, in) ==
    /\ pc[c] = "idle"
    /\ UNCHANGED << lab, config, heap >>
    /\ LET spanName == PublishSpanName(config.formatter, in.exchange, in.routingKey)
           attrs == GetPublishAttributes(in.exchange, in.routingKey,
                                         in.messageId, in.correlationId)
           spanOpts == SpanOptions("producer", attrs, config.enricher)
       IN  cur' = [cur EXCEPT ![c] =
              [NoCall EXCEPT !.op = op,
                             !.in = in,
                             !.spanName = spanName,
                             !.spanOpts = spanOpts,
                             !.spanAttrs = StartedAttributes(spanOpts),
                             !.ctx = StartContext(in.ctx),
                             !.headers = IF in.hasMap THEN heap[HeaderSlot(c)]
                                                      ELSE NilTable,
                             !.callerMap = heap[HeaderSlot(c)],
                             !.span = TracerStart(NewSpan),
                             !.trace = << "SpanStart" >>]]
    /\ pc' = [pc EXCEPT ![c] = PublishOrder[1]]
    /\ UNCHANGED stream

\* lines 266-269 / 304-307: the map is made when nil, then written in place.
PublishInject(c) ==
    /\ pc[c] = "inject"
    /\ UNCHANGED << lab, config >>
    /\ LET h == InjectToPublishing(config.propagator, cur[c].ctx, MsgHeaders(c))
       IN  /\ cur' = [cur EXCEPT ![c].headers = h,
                                 ![c].trace = Append(@, "Inject")]
           /\ heap' = IF cur[c].in.hasMap
                      THEN [heap EXCEPT ![HeaderSlot(c)] = h]
                      ELSE heap
    /\ pc' = [pc EXCEPT ![c] = PublishAfter("inject")]
    /\ UNCHANGED stream

\* line 271 / lines 309-311: the underlying send returns e.
PublishSend(c, e) ==
    /\ pc[c] = "send"
    /\ UNCHANGED << lab, config, heap >>
    /\ cur' = [cur EXCEPT ![c].err = e,
                          ![c].sendErr = e,
                          ![c].confirmation =
                              IF cur[c].op = "confirm" /\ e = Nil THEN "handle" ELSE "none",
                          ![c].sent = [called |-> TRUE,
                                       ctx |-> SendContext(cur[c].op, cur[c].ctx),
                                       headers |-> MsgHeaders(c)],
                          ![c].trace = Append(@, "Send")]
    /\ pc' = [pc EXCEPT ![c] = PublishAfter("send")]
    /\ UNCHANGED stream

\* line 273 / 313
PublishStatus(c) ==
    /\ pc[c] = "pstatus"
    /\ UNCHANGED << lab, config, heap >>
    /\ cur' = [cur EXCEPT ![c].span = SafeSetSpanStatus(@, cur[c].err),
                          ![c].trace = Append(@, "SetStatus")]
    /\ pc' = [pc EXCEPT ![c] = PublishAfter("pstatus")]
    /\ UNCHANGED stream

PublishReturn_Wrapped(err) ==
    IF err # Nil THEN Errorf("failed to publish", err) ELSE Nil

\* return err (line 275) / return confirmation, err (line 315)
PublishReturn(err) == err

\* A goroutine that publishes makes its one call and ends.
ReturnPc(c) == IF c \in Publishers THEN "done" ELSE "idle"

\* The deferred span.End() and the return.
PublishEnd(c) ==
    /\ pc[c] = "pend"
    /\ UNCHANGED << lab, config, heap >>
    /\ cur' = [cur EXCEPT ![c].span = DeferredEnd(@, cur[c].err),
                          ![c].trace = Append(@, "SpanEnd"),
                          ![c].returned = TRUE,
                          ![c].ret = PublishReturn(cur[c].err)]
    /\ pc' = [pc EXCEPT ![c] = ReturnPc(c)]
    /\ UNCHANGED stream

----------------------------------------------------------------------------
TaskStep(s) ==
    \/ TaskRecv(s)
    \/ TaskExit(s)
    \/ PDInvokeHandler(s)
    \/ \E e \in {Nil} \cup HandlerErrs : PDHandlerReturn(s, e)
    \/ \E o \in {Nil} \cup AckErrs \cup NackErrs : PDAck(s, o)
    \/ PDStatus(s)
    \/ PDEnd(s)

Next ==
    \/ \E c \in Callers, s \in Streams, a \in BOOLEAN, h \in BOOLEAN,
          e \in {Nil} \cup OpenErrs : ConsumeWithHandler(c, s, a, h, e)
    \/ \E s \in Streams : Yield(s)
    \/ \E s \in Streams : Close(s)
    \/ \E s \in Streams : TaskRecv(s)
    \/ \E s \in Streams : TaskExit(s)
    \/ \E c \in Callers, h \in BOOLEAN : ProcessDelivery(c, h, DefaultDeliveryInput)
    \/ \E t \in Threads : PDInvokeHandler(t)
    \/ \E t \in Threads, e \in {Nil} \cup HandlerErrs : PDHandlerReturn(t, e)
    \/ \E t \in Threads, o \in {Nil} \cup AckErrs \cup NackErrs : PDAck(t, o)
    \/ \E t \in Threads : PDStatus(t)
    \/ \E t \in Threads : PDEnd(t)
    \/ \E c \in Callers, op \in {"publish", "confirm"} :
          PublishStart(c, op, DefaultPublishInput)
    \/ \E c \in Callers : PublishInject(c)
    \/ \E c \in Callers, e \in {Nil} \cup SendErrs : PublishSend(c, e)
    \/ \E c \in Callers : PublishStatus(c)
    \/ \E c \in Callers : PublishEnd(c)

Spec == Init /\ [][Next]_vars

\* The Go scheduler runs a runnable goroutine; the handler and the client's
\* Ack and Nack are taken to return.
FairSpec == Spec /\ \A s \in Streams : WF_vars(TaskStep(s))

----------------------------------------------------------------------------
(* Propagator calls: a context is injected into a header map, and a        *)
(* context is extracted from a delivery that carries the map.              *)

LabContexts ==
    { Background,
      [Background EXCEPT !.tag = "request"],
      [traceID |-> "t1", spanID |-> "s1", sampled |-> TRUE,
       tracestate |-> EmptyString, remote |-> FALSE, tag |-> "request"],
      [traceID |-> "t2", spanID |-> "s2", sampled |-> FALSE,
       tracestate |-> << "vendor=1" >>, remote |-> FALSE, tag |-> "request"] }

LabBases == { Background, [Background EXCEPT !.tag = "consumer"] }

LabTables ==
    { NilTable,
      MakeTable,
      TableOf([k \in {"existing"} |-> StringValue(<< "value" >>)]),
      TableOf([k \in {"existing", TraceParentKey} |->
                 IF k = "existing" THEN StringValue(<< "value" >>)
                 ELSE StringValue(<< "00", "t9", "s9", "01" >>)]),
      TableOf([k \in {TraceParentKey, TraceStateKey} |->
                 IF k = TraceParentKey THEN StringValue(<< "00", "t9", "s9", "00" >>)
                 ELSE StringValue(<< "old=1" >>)]),
      TableOf([k \in {TraceParentKey} |-> StringValue(<< "garbage" >>)]),
      TableOf([k \in {TraceParentKey} |-> StringValue(<< "00", "", "s9", "01" >>)]),
      TableOf([k \in {TraceParentKey} |-> IntValue(<< "7" >>)]) }

InitProp ==
    /\ InitCalls
    /\ carrier = NoLab
    /\ attr = NoLab
    /\ \E p \in Propagators, ctx \in LabContexts, base \in LabBases, h \in LabTables :
          prop = [phase |-> "start", p |-> p, ctx |-> ctx, base |-> base,
                  before |-> h, headers |-> h, via |-> "none", out |-> Background]

\* Propagator.InjectToPublishing(ctx, &publishing)
LabInjectToPublishing ==
    /\ prop.phase = "start"
    /\ prop' = [prop EXCEPT !.phase = "injected", !.via = "publishing",
                            !.headers = InjectToPublishing(prop.p, prop.ctx, prop.headers)]
    /\ UNCHANGED << calls, carrier, attr >>

\* Propagator.InjectToHeaders(ctx, headers)
LabInjectToHeaders ==
    /\ prop.phase = "start"
    /\ prop' = [prop EXCEPT !.phase = "injected", !.via = "headers",
                            !.headers = InjectToHeaders(prop.p, prop.ctx, prop.headers)]
    /\ UNCHANGED << calls, carrier, attr >>

\* Propagator.ExtractFromDelivery(base, &amqp091.Delivery{Headers: headers})
LabExtractFromDelivery ==
    /\ prop.phase \in {"start", "injected"}
    /\ prop' = [prop EXCEPT !.phase = "extracted",
                            !.out = ExtractFromDelivery(prop.p, prop.base, prop.headers)]
    /\ UNCHANGED << calls, carrier, attr >>

NextProp ==
    \/ LabInjectToPublishing
    \/ LabInjectToHeaders
    \/ LabExtractFromDelivery

PropSpec == InitProp /\ [][NextProp]_vars

----------------------------------------------------------------------------
(* Header carrier calls: Set, Get and Keys on one header map.  known is    *)
(* the record kept beside the map of what each key was last given.         *)

CarrierKeys == {"a", "b", "n"}
CarrierValues == { << "x" >>, << "y" >>, EmptyString }

CarrierMaps ==
    { EmptyMap,
      [k \in {"n"} |-> IntValue(<< "42" >>)],
      [k \in {"a"} |-> StringValue(<< "x" >>)],
      [k \in {"a", "n"} |-> IF k = "a" THEN StringValue(<< "y" >>)
                                      ELSE IntValue(<< "42" >>)] }

Known(m) ==
    [k \in CarrierKeys |->
        IF k \notin DOMAIN m THEN [kind |-> "absent", val |-> EmptyString]
        ELSE [kind |-> m[k].type, val |-> m[k].val]]

InitCarrier ==
    /\ InitCalls
    /\ prop = NoLab
    /\ attr = NoLab
    /\ \E m \in CarrierMaps :
          carrier = [phase |-> "made", init |-> m, m |-> m, known |-> Known(m),
                     key |-> "a", got |-> EmptyString, keys |-> << >>]

\* HeaderCarrier(m).Set(k, v)
CarrierSet(k, v) ==
    /\ carrier.phase # "off"
    /\ carrier' = [carrier EXCEPT !.phase = "set", !.key = k,
                                  !.m = Set(carrier.m, k, v),
                                  !.known[k] = [kind |-> "string", val |-> v],
                                  !.got = EmptyString, !.keys = << >>]
    /\ UNCHANGED << calls, prop, attr >>

\* HeaderCarrier(m).Get(k)
CarrierGet(k) ==
    /\ carrier.phase # "off"
    /\ carrier' = [carrier EXCEPT !.phase = "get", !.key = k,
                                  !.got = Get(carrier.m, k), !.keys = << >>]
    /\ UNCHANGED << calls, prop, attr >>

\* HeaderCarrier(m).Keys()
CarrierKeysCall ==
    /\ carrier.phase # "off"
    /\ \E ks \in Keys(carrier.m) :
          carrier' = [carrier EXCEPT !.phase = "keys", !.keys = ks,
                                     !.got = EmptyString]
    /\ UNCHANGED << calls, prop, attr >>

NextCarrier ==
    \/ \E k \in CarrierKeys, v \in CarrierValues : CarrierSet(k, v)
    \/ \E k \in CarrierKeys : CarrierGet(k)
    \/ CarrierKeysCall

CarrierSpec == InitCarrier /\ [][NextCarrier]_vars

----------------------------------------------------------------------------
(* Attribute builder and span-name calls on one publisher and one consumer *)
(* configuration.                                                          *)

Names == {"", "orders", "order.created"}

InitAttr ==
    /\ InitCalls
    /\ carrier = NoLab
    /\ prop = NoLab
    /\ \E e \in Names, rk \in Names, q \in Names, f \in Formatters :
          attr = [phase |-> "made", exchange |-> e, routingKey |-> rk,
                  queueName |-> q, formatter |-> f,
                  common |-> << >>, pubName |-> << >>, conName |-> << >>]

\* internal.GetCommonAttributes(exchange, routingKey)
AttrGetCommon ==
    /\ attr.phase # "off"
    /\ attr.common = << >>
    /\ attr' = [attr EXCEPT !.phase = "called",
                            !.common = GetCommonAttributes(attr.exchange, attr.routingKey)]
    /\ UNCHANGED << calls, carrier, prop >>

\* NewPublisher(config).config.SpanNameFormatter(exchange, routingKey)
AttrPublishName ==
    /\ attr.phase # "off"
    /\ attr.pubName = << >>
    /\ attr' = [attr EXCEPT !.phase = "called",
                            !.pubName = PublishSpanName(attr.formatter, attr.exchange,
                                                        attr.routingKey)]
    /\ UNCHANGED << calls, carrier, prop >>

\* NewConsumer(config).config.SpanNameFormatter(queueName, &delivery)
AttrConsumeName ==
    /\ attr.phase # "off"
    /\ attr.conName = << >>
    /\ attr' = [attr EXCEPT !.phase = "called",
                            !.conName = ConsumeSpanName(attr.formatter, attr.queueName,
                                                        attr.routingKey)]
    /\ UNCHANGED << calls, carrier, prop >>

NextAttr ==
    \/ AttrGetCommon
    \/ AttrPublishName
    \/ AttrConsumeName

AttrSpec == InitAttr /\ [][NextAttr]_vars

----------------------------------------------------------------------------
(* One caller that publishes and processes single deliveries, for every    *)
(* configuration and over the arguments of the calls.                      *)

CallContexts ==
    { Background,
      [traceID |-> "t1", spanID |-> "s1", sampled |-> TRUE,
       tracestate |-> << "vendor=1" >>, remote |-> FALSE, tag |-> "request"] }

PublishInputs ==
    [ctx : CallContexts, exchange : {"", "orders"}, routingKey : {"order.created"},
     messageId : {"m1"}, correlationId : {""}, hasMap : BOOLEAN]

DeliveryInputs ==
    [ctx : {Background, [Background EXCEPT !.tag = "consumer"]},
     queueName : {"", "orders"}, routingKey : {"order.created"},
     messageId : {"m1"}, correlationId : {""},
     headers : { NilTable,
                 TableOf([k \in {TraceParentKey} |->
                             StringValue(<< "00", "t9", "s9", "01" >>)]),
                 TableOf([k \in {TraceParentKey} |-> StringValue(<< "garbage" >>)]) }]

CallerTables ==
    { MakeTable,
      TableOf([k \in {"existing"} |-> StringValue(<< "value" >>)]),
      TableOf([k \in {TraceParentKey} |-> StringValue(<< "00", "t9", "s9", "01" >>)]) }

InitCall ==
    /\ InitThreads
    /\ carrier = NoLab
    /\ prop = NoLab
    /\ attr = NoLab
    /\ config \in Configs
    /\ \E h \in CallerTables : heap = [NoHeap EXCEPT !["main"] = h]

NextCall ==
    \/ \E c \in Callers, h \in BOOLEAN, in \in DeliveryInputs : ProcessDelivery(c, h, in)
    \/ \E c \in Callers : PDInvokeHandler(c)
    \/ \E c \in Callers, e \in {Nil} \cup HandlerErrs : PDHandlerReturn(c, e)
    \/ \E c \in Callers, o \in {Nil} \cup AckErrs \cup NackErrs : PDAck(c, o)
    \/ \E c \in Callers : PDStatus(c)
    \/ \E c \in Callers : PDEnd(c)
    \/ \E c \in Callers, op \in {"publish", "confirm"}, in \in PublishInputs :
          PublishStart(c, op, in)
    \/ \E c \in Callers : PublishInject(c)
    \/ \E c \in Callers, e \in {Nil} \cup SendErrs : PublishSend(c, e)
    \/ \E c \in Callers : PublishStatus(c)
    \/ \E c \in Callers : PublishEnd(c)

CallSpec == InitCall /\ [][NextCall]_vars

----------------------------------------------------------------------------
(* Concurrent calls on one Publisher and one Consumer: a streaming consume *)
(* whose goroutine processes deliveries while two goroutines publish, each *)
(* with a message of its own (no header map is shared between publishes).  *)

ConcHeap ==
    [t \in Callers \cup Publishers |->
        IF t = "p1"
        THEN TableOf([k \in {"existing"} |-> StringValue(<< "value" >>)])
        ELSE MakeTable]

ConcContext(t) ==
    [traceID |-> IF t = "p1" THEN "t1" ELSE "t2", spanID |-> "s1", sampled |-> TRUE,
     tracestate |-> IF t = "p1" THEN EmptyString ELSE << "vendor=1" >>,
     remote |-> FALSE, tag |-> t]

\* One goroutine calls Publish, the other PublishWithConfirm.
ConcOp(t) == IF t = "p1" THEN "publish" ELSE "confirm"

ConcInput(t, hasMap) ==
    [DefaultPublishInput EXCEPT !.ctx = ConcContext(t), !.exchange = "orders",
                                !.hasMap = hasMap]

\* The send fails for a closed channel, or succeeds.
ConcSendErrs == { e \in SendErrs : e[1].id = "ErrClosed" }

InitConc ==
    /\ pc = [t \in Threads |-> IF t \in Callers \cup Publishers THEN "idle" ELSE "none"]
    /\ cur = [t \in Threads |-> NoCall]
    /\ stream = [s \in Streams |-> NoStream]
    /\ carrier = NoLab
    /\ prop = NoLab
    /\ attr = NoLab
    /\ \E p \in Propagators : config = [DefaultConfig EXCEPT !.propagator = p]
    /\ heap = ConcHeap

NextConc ==
    \/ \E c \in Callers, s \in Streams, a \in BOOLEAN :
          ConsumeWithHandler(c, s, a, FALSE, Nil)
    \/ \E s \in Streams : Yield(s)
    \/ \E s \in Streams : Close(s)
    \/ \E s \in Streams : TaskRecv(s)
    \/ \E s \in Streams : TaskExit(s)
    \/ \E s \in Streams : PDInvokeHandler(s)
    \/ \E s \in Streams, e \in {Nil} \cup HandlerErrs : PDHandlerReturn(s, e)
    \/ \E s \in Streams : PDAck(s, Nil)
    \/ \E s \in Streams : PDStatus(s)
    \/ \E s \in Streams : PDEnd(s)
    \/ \E t \in Publishers, m \in BOOLEAN :
          PublishStart(t, ConcOp(t), ConcInput(t, m))
    \/ \E t \in Publishers : PublishInject(t)
    \/ \E t \in Publishers, e \in {Nil} \cup ConcSendErrs : PublishSend(t, e)
    \/ \E t \in Publishers : PublishStatus(t)
    \/ \E t \in Publishers : PublishEnd(t)

ConcSpec == InitConc /\ [][NextConc]_vars

----------------------------------------------------------------------------
(* What publishing does to the caller's message: one caller publishes      *)
(* messages with and without a header map of its own, and calls the        *)
(* propagator on a header map directly.                                    *)

EffectTables ==
    { NilTable,
      MakeTable,
      TableOf([k \in {"existing"} |-> StringValue(<< "value" >>)]) }

InitEffect ==
    /\ InitThreads
    /\ carrier = NoLab
    /\ attr = NoLab
    /\ \E p \in Propagators, ctx \in CallContexts, h \in EffectTables :
          /\ config = [DefaultConfig EXCEPT !.propagator = p]
          /\ prop = [phase |-> "start", p |-> p, ctx |-> ctx, base |-> Background,
                     before |-> h, headers |-> h, via |-> "none", out |-> Background]
    /\ \E h \in CallerTables : heap = [NoHeap EXCEPT !["main"] = h]

NextEffect ==
    \/ \E c \in Callers, op \in {"publish", "confirm"}, in \in PublishInputs :
          PublishStart(c, op, in)
    \/ \E c \in Callers : PublishInject(c)
    \/ \E c \in Callers, e \in {Nil} \cup SendErrs : PublishSend(c, e)
    \/ \E c \in Callers : PublishStatus(c)
    \/ \E c \in Callers : PublishEnd(c)
    \/ LabInjectToPublishing
    \/ LabInjectToHeaders

EffectSpec == InitEffect /\ [][NextEffect]_vars

----------------------------------------------------------------------------
(* Properties                                                              *)

Processing(t) == cur[t].op = "process"
Publishing(t) == cur[t].op \in {"publish", "confirm"}

\* The first position of event ev in trace tr, 0 when it is absent.
Pos(tr, ev) ==
    IF \E i \in 1..Len(tr) : tr[i] = ev
    THEN CHOOSE i \in 1..Len(tr) : tr[i] = ev /\ \A j \in 1..(i - 1) : tr[j] # ev
    ELSE 0

Count(tr, ev) == Cardinality({i \in 1..Len(tr) : tr[i] = ev})

\* The position of the acknowledgment attempt, positive or negative.
AckPos(tr) == IF Pos(tr, "Ack") > 0 THEN Pos(tr, "Ack") ELSE Pos(tr, "Nack")

\* C1: per delivery, with autoAck=false a handler returning nil gives exactly
\* one Ack and no Nack, a handler returning an error gives exactly one Nack
\* with requeue and no Ack; with autoAck=true neither is issued.
C1_AckPolicy ==
    \A t \in Threads :
        LET c == cur[t] IN
        Processing(t) =>
            /\ c.acks = Count(c.trace, "Ack")
            /\ c.nacks = Count(c.trace, "Nack")
            /\ c.autoAck => c.acks = 0 /\ c.nacks = 0
            /\ c.returned /\ ~c.autoAck /\ c.handlerErr = Nil =>
                   c.acks = 1 /\ c.nacks = 0
            /\ c.returned /\ ~c.autoAck /\ c.handlerErr # Nil =>
                   c.nacks = 1 /\ c.acks = 0 /\ c.requeue = {TRUE}

C1_Witness ==
    /\ \E t \in Threads :
          /\ Processing(t) /\ cur[t].returned /\ ~cur[t].autoAck
          /\ cur[t].handlerErr # Nil /\ cur[t].nacks = 1
    /\ \E t \in Threads :
          /\ Processing(t) /\ cur[t].returned /\ cur[t].autoAck
          /\ cur[t].handlerErr # Nil

\* C2 as stated: a delivery processed through ProcessDelivery is neither
\* acked nor nacked by the wrapper.
C2_DirectNoAck ==
    \A t \in Threads :
        Processing(t) /\ cur[t].via = "direct" =>
            cur[t].acks = 0 /\ cur[t].nacks = 0

\* C2 amended: ProcessDelivery runs the per-delivery procedure with
\* autoAck=false, so the wrapper itself issues exactly one Ack when the
\* handler returned nil and exactly one Nack with requeue when it failed.
C2_DirectAcks ==
    \A t \in Threads :
        LET c == cur[t] IN
        Processing(t) /\ c.via = "direct" =>
            /\ ~c.autoAck
            /\ c.returned =>
                 /\ c.acks + c.nacks = 1
                 /\ c.handlerErr = Nil => c.acks = 1
                 /\ c.handlerErr # Nil => c.nacks = 1 /\ c.requeue = {TRUE}

C2_Witness ==
    \E t \in Callers :
        /\ Processing(t) /\ cur[t].via = "direct" /\ cur[t].returned
        /\ cur[t].handlerErr = Nil /\ cur[t].acks = 1

\* C3: every Publish, PublishWithConfirm and per-delivery invocation starts
\* exactly one span and has ended exactly that span when it returns, on
\* every path; before it returns the span is open.
C3_SpanLifecycle ==
    \A t \in Threads :
        Processing(t) \/ Publishing(t) =>
            /\ cur[t].span.starts = 1
            /\ cur[t].span.ends = IF cur[t].returned THEN 1 ELSE 0
            /\ cur[t].returned <=> pc[t] \in {"idle", "recv", "done"}

C3_Witness ==
    /\ \E t \in Threads :
          /\ Publishing(t) /\ cur[t].returned /\ cur[t].sendErr # Nil
          /\ cur[t].span.ends = 1
    /\ \E t \in Threads :
          /\ Processing(t) /\ cur[t].returned /\ cur[t].handlerErr # Nil
          /\ cur[t].ackErr # Nil /\ cur[t].span.ends = 1

\* C4: within one delivery the Ack or Nack comes after the handler returned
\* and before the span ends; the status is set after the acknowledgment
\* attempt and before the span ends.
C4_Ordering ==
    \A t \in Threads :
        LET c  == cur[t]
            tr == c.trace
            a  == AckPos(tr)
            st == Pos(tr, "SetStatus")
            en == Pos(tr, "SpanEnd")
        IN  Processing(t) =>
            /\ a > 0 => c.handlerNil \/ Pos(tr, "HandlerReturn") \in 1..(a - 1)
            /\ st > 0 /\ ~c.autoAck => a \in 1..(st - 1)
            /\ st > 0 /\ ~c.handlerNil => Pos(tr, "HandlerReturn") \in 1..(st - 1)
            /\ en > 0 => st \in 1..(en - 1)
            /\ en > 0 /\ ~c.autoAck => a \in 1..(en - 1)

C4_Witness ==
    \E t \in Threads :
        /\ Processing(t) /\ ~cur[t].autoAck /\ ~cur[t].handlerNil
        /\ cur[t].trace =
             << "SpanStart", "Handler", "HandlerReturn", "Nack", "SetStatus", "SpanEnd" >>

\* C5: with autoAck=false, a failed Ack after a successful handler is
\* recorded and is the error of the span status; a failed Nack after a
\* failed handler is recorded, and the status is set from the handler's
\* error, not from the Nack's.
C5_AckFailurePrecedence ==
    \A t \in Threads :
        LET c == cur[t]
            InRecorded(e) == \E i \in 1..Len(c.span.recorded) : c.span.recorded[i] = e
        IN  Processing(t) /\ ~c.autoAck /\ c.span.sets > 0 /\ c.ackErr # Nil =>
            /\ c.span.code = "Error"
            /\ c.handlerErr = Nil =>
                 /\ InRecorded(Errorf("failed to ack message", c.ackErr))
                 /\ c.err = c.ackErr
                 /\ c.span.desc = ErrorString(c.ackErr)
            /\ c.handlerErr # Nil =>
                 /\ InRecorded(Errorf("failed to nack message", c.ackErr))
                 /\ c.err = c.handlerErr
                 /\ c.span.desc = ErrorString(c.handlerErr)
                 /\ c.span.desc # ErrorString(c.ackErr)
                 /\ ~InRecorded(c.ackErr)

C5_Witness ==
    /\ \E t \in Threads :
          /\ Processing(t) /\ cur[t].returned /\ cur[t].handlerErr # Nil
          /\ cur[t].ackErr \in NackErrs
    /\ \E t \in Threads :
          /\ Processing(t) /\ cur[t].returned /\ cur[t].handlerErr = Nil
          /\ cur[t].ackErr \in AckErrs

\* C6: after a delivery whose handler returned an error, whatever the Nack
\* did, every later delivery the stream yields is still processed by the
\* stream's goroutine.
C6_LoopSurvivesHandlerError ==
    \A s \in Streams : \A n \in 1..MaxDeliveries :
        ((\E m \in stream[s].failed : m < n) /\ stream[s].yielded >= n)
            ~> (stream[s].completed >= n /\ stream[s].handled[n] = n)

C6_Witness ==
    \E s \in Streams :
        /\ 1 \in stream[s].failed
        /\ stream[s].completed >= 2
        /\ cur[s].delivery = 2 /\ cur[s].returned

\* C7: when the stream open fails, ConsumeWithHandler returns the wrapped
\* error at once, spawns no goroutine, processes nothing and opens once.
C7_OpenFailure ==
    \A s \in Streams :
        stream[s].state = "failed" =>
            /\ \E e \in OpenErrs :
                  stream[s].ret = Errorf("failed to start consuming", e)
            /\ stream[s].opens = 1
            /\ stream[s].tasks = 0
            /\ pc[s] = "none"
            /\ cur[s] = NoCall
            /\ stream[s].handled = << >>
            /\ stream[s].received = 0

C7_Witness ==
    \E s \in Streams : \E c \in Callers :
        /\ stream[s].state = "failed"
        /\ cur[c].op = "consume" /\ cur[c].returned /\ cur[c].ret # Nil

\* C8: one streaming invocation has exactly one goroutine; it hands the
\* deliveries to the handler in the order the stream yields them, each
\* once, and delivery n's procedure has returned before n+1's begins.
C8_OneTaskInOrder ==
    \A s \in Streams :
        LET st == stream[s] IN
        /\ st.tasks = IF st.state = "open" THEN 1 ELSE 0
        /\ st.received <= st.yielded
        /\ Len(st.handled) = st.received
        /\ \A i \in 1..Len(st.handled) : st.handled[i] = i
        /\ st.completed \in {Len(st.handled) - 1, Len(st.handled)}
        /\ st.completed = Len(st.handled) <=> pc[s] \in {"none", "recv", "done"}
        /\ cur[s].handlerCalls <= 1
        /\ Processing(s) /\ cur[s].returned /\ ~cur[s].handlerNil =>
               cur[s].handlerCalls = 1
        /\ Processing(s) => cur[s].delivery = Len(st.handled)
        /\ pc[s] = "done" => Len(st.handled) = st.yielded

C8_Witness ==
    \E s \in Streams :
        /\ stream[s].handled = << 1, 2 >>
        /\ stream[s].completed = 2
        /\ stream[s].tasks = 1

\* C9: once the stream is closed the goroutine eventually finishes, having
\* processed every delivery yielded; it never finishes while the stream is
\* open.
C9_LoopTerminates ==
    /\ \A s \in Streams : stream[s].closed ~> (pc[s] = "done")
    /\ [](\A s \in Streams :
             pc[s] = "done" =>
                 /\ stream[s].closed
                 /\ stream[s].received = stream[s].yielded
                 /\ stream[s].completed = stream[s].yielded)

C9_Witness ==
    \E s \in Streams :
        /\ pc[s] = "done"
        /\ stream[s].closed
        /\ stream[s].completed = 2

\* C10: Publish and PublishWithConfirm return the very error of the
\* underlying send; by then the span status is Ok for nil, and otherwise
\* the error is recorded and the status is Error with the error's message.
C10_PublishPassThrough ==
    \A t \in Threads :
        LET c == cur[t] IN
        Publishing(t) /\ c.returned =>
            /\ c.ret = c.sendErr
            /\ c.span.sets = 1
            /\ c.sendErr = Nil =>
                 c.span.code = "Ok" /\ c.span.recorded = << >>
            /\ c.sendErr # Nil =>
                 /\ c.span.code = "Error"
                 /\ c.span.desc = ErrorString(c.sendErr)
                 /\ c.span.recorded = << c.sendErr >>

C10_Witness ==
    \E t \in Threads :
        /\ cur[t].op = "confirm" /\ cur[t].returned
        /\ cur[t].ret \in SendErrs
        /\ cur[t].span.code = "Error"

PropagationKeys == {TraceParentKey, TraceStateKey}

C12_ExtractionNeverFails ==
    prop.phase = "extracted" /\ prop.via = "none" =>
        /\ prop.before.nil => prop.out = prop.base
        /\ ~WellFormedTraceParent(Get(prop.before.m, TraceParentKey)) =>
              prop.out = prop.base
        /\ prop.out.tag = prop.base.tag

C12_Witness ==
    /\ prop.phase = "extracted" /\ prop.via = "none"
    /\ prop.before.nil
    /\ prop.base # Background
    /\ prop.out = prop.base

C14_CarrierLaws ==
    /\ carrier.phase = "get" =>
          carrier.got = IF carrier.known[carrier.key].kind = "string"
                        THEN carrier.known[carrier.key].val
                        ELSE EmptyString
    /\ carrier.phase = "keys" =>
          /\ Len(carrier.keys)
                = Cardinality({ k \in CarrierKeys : carrier.known[k].kind # "absent" })
          /\ { carrier.keys[i] : i \in 1..Len(carrier.keys) }
                = { k \in CarrierKeys : carrier.known[k].kind # "absent" }

C14_Witness ==
    /\ carrier.phase = "get"
    /\ carrier.key = "n"
    /\ DOMAIN carrier.init = {"a", "n"}
    /\ carrier.init["a"] = StringValue(<< "y" >>)
    /\ carrier.got = << "x" >>
    /\ carrier.known["a"].val = << "x" >>
    /\ carrier.known["b"].kind = "absent"

\* C15: GetCommonAttributes emits system=rabbitmq first and no attribute
\* with an empty value; with an exchange: system, destination=exchange,
\* destination_kind=topic, then routing_key only when routingKey is set;
\* without: system, destination_kind=queue, then destination=routingKey
\* and routing_key=routingKey only when routingKey is set.
C15_CommonAttributes ==
    attr.phase # "off" /\ attr.common # << >> =>
        LET system == << "messaging.system", "rabbitmq" >>
            rk == attr.routingKey
            tail(withDestination) ==
                IF rk = "" THEN << >>
                ELSE IF withDestination
                     THEN << << "messaging.destination", rk >>,
                             << "messaging.rabbitmq.routing_key", rk >> >>
                     ELSE << << "messaging.rabbitmq.routing_key", rk >> >>
        IN  /\ attr.common[1] = system
            /\ \A i \in 1..Len(attr.common) : attr.common[i][2] # ""
            /\ attr.exchange # "" =>
                  attr.common
                     = << system,
                          << "messaging.destination", attr.exchange >>,
                          << "messaging.destination_kind", "topic" >> >> \o tail(FALSE)
            /\ attr.exchange = "" =>
                  attr.common
                     = << system,
                          << "messaging.destination_kind", "queue" >> >> \o tail(TRUE)

C15_Witness ==
    /\ attr.phase = "called"
    /\ attr.exchange = ""
    /\ attr.routingKey = ""
    /\ Len(attr.common) = 2

\* C16: with no formatter configured the publish span name is
\* "{exchange} publish", else "{routingKey} publish", else
\* "rabbitmq publish", and the consume span name is "{queueName} receive",
\* else "{routingKey} receive", else "rabbitmq receive".
C16_DefaultSpanNames ==
    attr.phase # "off" /\ attr.formatter = "nil" =>
        /\ attr.pubName # << >> =>
              /\ attr.exchange # "" => attr.pubName = << attr.exchange, "publish" >>
              /\ attr.exchange = "" /\ attr.routingKey # "" =>
                    attr.pubName = << attr.routingKey, "publish" >>
              /\ attr.exchange = "" /\ attr.routingKey = "" =>
                    attr.pubName = << "rabbitmq", "publish" >>
        /\ attr.conName # << >> =>
              /\ attr.queueName # "" => attr.conName = << attr.queueName, "receive" >>
              /\ attr.queueName = "" /\ attr.routingKey # "" =>
                    attr.conName = << attr.routingKey, "receive" >>
              /\ attr.queueName = "" /\ attr.routingKey = "" =>
                    attr.conName = << "rabbitmq", "receive" >>

C16_Witness ==
    /\ attr.phase = "called"
    /\ attr.formatter = "nil"
    /\ attr.exchange = "orders" /\ attr.routingKey = "order.created"
    /\ attr.queueName = ""
    /\ attr.pubName = << "orders", "publish" >>
    /\ attr.conName = << "order.created", "receive" >>

\* The attributes the attribute builder gives the span of a call.
BaseAttributes(c) ==
    IF c.op = "process"
    THEN GetConsumeAttributes(c.in.queueName, c.in.routingKey,
                              c.in.messageId, c.in.correlationId)
    ELSE GetPublishAttributes(c.in.exchange, c.in.routingKey,
                              c.in.messageId, c.in.correlationId)

\* C17: on the started span of every publish and every per-delivery
\* consume, each base attribute key keeps the value the attribute builder
\* gave it, also when the enricher supplies the same key.
C17_EnrichmentAdditive ==
    \A t \in Threads :
        Processing(t) \/ Publishing(t) =>
            LET base == BaseAttributes(cur[t]) IN
            \A i \in 1..Len(base) :
                /\ base[i][1] \in DOMAIN cur[t].spanAttrs
                /\ cur[t].spanAttrs[base[i][1]] = base[i][2]

PublishSteps == << "SpanStart", "Inject", "Send", "SetStatus", "SpanEnd" >>

\* C18: Publish and PublishWithConfirm run the same steps and both hand
\* the underlying send the derived context and the header-mutated message;
\* only the confirm variant returns a confirmation handle.
C18_SameProcedure ==
    \A t \in Threads :
        Publishing(t) /\ cur[t].returned =>
            /\ cur[t].trace = PublishSteps
            /\ cur[t].spanName
                  = PublishSpanName(config.formatter, cur[t].in.exchange,
                                    cur[t].in.routingKey)
            /\ cur[t].sent.called
            /\ cur[t].sent.headers = cur[t].headers
            /\ cur[t].sent.ctx = cur[t].ctx
            /\ cur[t].op = "publish" => cur[t].confirmation = "none"

\* C20: in every Publish and PublishWithConfirm the steps run in the order
\* span start, injection into an existing header map, send of the message
\* with the injected headers, status, span end; the send comes after the
\* injection and before the span ends.
C20_PublishStepOrder ==
    \A t \in Threads :
        Publishing(t) =>
            /\ Len(cur[t].trace) <= Len(PublishSteps)
            /\ cur[t].trace = SubSeq(PublishSteps, 1, Len(cur[t].trace))
            /\ cur[t].span.ends = Count(cur[t].trace, "SpanEnd")
            /\ cur[t].sent.called =>
                  /\ Count(cur[t].trace, "Inject") = 1
                  /\ ~cur[t].sent.headers.nil
                  /\ cur[t].sent.headers = cur[t].headers
                  /\ cur[t].in.hasMap => heap[t] = cur[t].sent.headers
                  /\ config.propagator = "tracecontext" =>
                        Get(cur[t].sent.headers.m, TraceParentKey)
                           = FormatTraceParent(cur[t].ctx)

C20_Witness ==
    /\ Publishing("main") /\ cur["main"].returned
    /\ cur["main"].op = "confirm"
    /\ config.propagator = "tracecontext"
    /\ ~cur["main"].in.hasMap
    /\ IsValid(cur["main"].in.ctx)
    /\ Get(cur["main"].sent.headers.m, TraceParentKey)
          = << "00", "t1", "s-new", "01" >>
    /\ cur["main"].span.ends = 1

\* What a publish call of thread t sends when it runs alone.
SequentialHeaders(t) ==
    InjectToPublishing(config.propagator, StartContext(cur[t].in.ctx),
                       IF cur[t].in.hasMap THEN ConcHeap[t] ELSE NilTable)

\* The outcome of every call is the one it has when it runs alone.
SequentialOutcome ==
    /\ \A t \in Publishers :
          Publishing(t) =>
              /\ cur[t].trace = SubSeq(PublishSteps, 1, Len(cur[t].trace))
              /\ cur[t].span.starts = 1
              /\ cur[t].span.ends = IF cur[t].returned THEN 1 ELSE 0
              /\ cur[t].sent.called => cur[t].sent.headers = SequentialHeaders(t)
              /\ cur[t].in.hasMap /\ cur[t].sent.called => heap[t] = SequentialHeaders(t)
              /\ ~cur[t].in.hasMap => heap[t] = ConcHeap[t]
    /\ \A s \in Streams :
          Processing(s) =>
              /\ cur[s].span.starts = 1
              /\ cur[s].span.ends = IF cur[s].returned THEN 1 ELSE 0
              /\ cur[s].returned =>
                    /\ cur[s].acks = IF ~cur[s].autoAck /\ cur[s].handlerErr = Nil
                                     THEN 1 ELSE 0
                    /\ cur[s].nacks = IF ~cur[s].autoAck /\ cur[s].handlerErr # Nil
                                      THEN 1 ELSE 0

\* A step changes the invocation of one thread only (the consume call that
\* spawns the goroutine aside), a header map only by the injection of the
\* thread that owns it, and never the configuration.
OwnStateOnly ==
    /\ config' = config
    /\ \A t \in Callers \cup Publishers :
          heap'[t] # heap[t] => pc[t] = "inject" /\ pc'[t] # pc[t]
    /\ \A t, u \in Threads :
          t # u /\ cur'[t] # cur[t] => cur'[u] = cur[u]
    /\ \A t, u \in Publishers \cup Streams :
          t # u /\ pc'[t] # pc[t] /\ pc[t] # "none" => pc'[u] = pc[u]

C21_NilHandlerSuccess ==
    \A t \in Threads :
        LET c == cur[t] IN
        Processing(t) /\ c.handlerNil =>
            /\ c.handlerCalls = 0
            /\ Count(c.trace, "Handler") = 0
            /\ c.handlerErr = Nil
            /\ c.nacks = 0
            /\ c.autoAck => c.acks = 0
            /\ c.returned /\ ~c.autoAck => c.acks = 1
            /\ c.returned =>
                  /\ c.span.ends = 1
                  /\ c.ackErr = Nil => c.span.code = "Ok"
                  /\ c.ackErr # Nil => c.span.code = "Error" /\ c.err = c.ackErr

C21_Witness ==
    /\ \E t \in Callers :
          /\ Processing(t) /\ cur[t].handlerNil /\ cur[t].returned
          /\ ~cur[t].autoAck /\ cur[t].acks = 1 /\ cur[t].span.code = "Ok"
    /\ \E s \in Streams :
          /\ Processing(s) /\ cur[s].handlerNil /\ cur[s].returned
          /\ ~cur[s].autoAck /\ cur[s].ackErr # Nil /\ cur[s].span.code = "Error"

\* C22: the span status of a processed delivery is Ok exactly when the
\* handler returned no error (or was nil) and, with autoAck=false, the Ack
\* succeeded; otherwise it is Error.  It is set exactly once per delivery.
C22_FinalSpanStatus ==
    \A t \in Threads :
        LET c == cur[t]
            succeeded == c.handlerErr = Nil /\ (c.autoAck \/ c.ackErr = Nil)
        IN  Processing(t) =>
            /\ c.span.sets = Count(c.trace, "SetStatus")
            /\ c.span.sets <= 1
            /\ c.span.sets = 0 => c.span.code = "Unset"
            /\ c.returned => c.span.sets = 1
            /\ c.span.sets = 1 =>
                  /\ c.span.code \in {"Ok", "Error"}
                  /\ c.span.code = "Ok" <=> succeeded
                  /\ c.span.code = "Error" <=> ~succeeded

C22_Witness ==
    /\ \E t \in Callers :
          /\ Processing(t) /\ cur[t].returned /\ cur[t].handlerErr # Nil
          /\ cur[t].ackErr = Nil /\ cur[t].nacks = 1
          /\ cur[t].span.code = "Error" /\ cur[t].span.sets = 1
    /\ \E s \in Streams :
          /\ Processing(s) /\ cur[s].returned /\ cur[s].autoAck
          /\ cur[s].handlerCalls = 1 /\ cur[s].handlerErr = Nil
          /\ cur[s].span.code = "Ok" /\ cur[s].span.sets = 1

\* C23: ProcessDelivery returns nil to its caller whatever happened: a
\* handler error, a Nack failure or an Ack failure is recorded on the span
\* and never returned.
C23_ProcessDeliveryReturnsNil ==
    \A t \in Threads :
        LET c == cur[t]
            InRecorded(e) == \E i \in 1..Len(c.span.recorded) : c.span.recorded[i] = e
        IN  Processing(t) /\ c.via = "direct" /\ c.returned =>
            /\ c.ret = Nil
            /\ c.handlerErr # Nil => InRecorded(c.handlerErr)
            /\ c.handlerErr # Nil /\ c.ackErr # Nil =>
                  InRecorded(Errorf("failed to nack message", c.ackErr))
            /\ c.handlerErr = Nil /\ c.ackErr # Nil =>
                  /\ InRecorded(Errorf("failed to ack message", c.ackErr))
                  /\ InRecorded(c.ackErr)

C23_Witness ==
    \E t \in Callers :
        /\ Processing(t) /\ cur[t].via = "direct" /\ cur[t].returned
        /\ cur[t].handlerErr # Nil
        /\ cur[t].ackErr \in NackErrs
        /\ cur[t].span.code = "Error"
        /\ cur[t].ret = Nil

\* The helper calls on a nil header map: InjectToHeaders leaves it nil,
\* InjectToPublishing creates the map.
NilMapInjection ==
    prop.phase = "injected" /\ prop.before.nil =>
        /\ prop.via = "headers" => prop.headers.nil
        /\ prop.via = "publishing" => ~prop.headers.nil

\* A publish whose message has no header map leaves the caller's message
\* alone and makes the map in its own copy.
NoMapPublish(t) ==
    ~cur[t].in.hasMap =>
        /\ heap[t] = cur[t].callerMap
        /\ ~cur[t].headers.nil
        /\ cur[t].sent.called => ~cur[t].sent.headers.nil

\* A publish whose message has a header map writes that map in place.
InPlacePublish(t) ==
    cur[t].in.hasMap =>
        /\ heap[t] = cur[t].headers
        /\ config.propagator = "tracecontext" =>
              Get(heap[t].m, TraceParentKey) = FormatTraceParent(cur[t].ctx)

\* C24 as stated: after injection the caller's header map holds the
\* injected propagation keys in addition to all its previous entries.
C24_CallerMessageEffect ==
    /\ NilMapInjection
    /\ \A t \in Callers :
          Publishing(t) /\ Count(cur[t].trace, "Inject") = 1 =>
              /\ NoMapPublish(t)
              /\ InPlacePublish(t)
              /\ cur[t].in.hasMap =>
                    \A k \in DOMAIN cur[t].callerMap.m :
                        /\ k \in DOMAIN heap[t].m
                        /\ heap[t].m[k] = cur[t].callerMap.m[k]

\* C24 amended: the caller's header map is written in place and afterwards
\* holds the propagation keys the propagator wrote, which replace earlier
\* entries under those keys, and every other previous entry unchanged; a
\* message without a header map leaves the caller's message alone;
\* InjectToHeaders on a nil map does nothing, InjectToPublishing makes it.
C24_CallerMessageEffectKeys ==
    /\ NilMapInjection
    /\ \A t \in Callers :
          Publishing(t) /\ Count(cur[t].trace, "Inject") = 1 =>
              /\ NoMapPublish(t)
              /\ InPlacePublish(t)
              /\ cur[t].in.hasMap =>
                    /\ DOMAIN cur[t].callerMap.m \subseteq DOMAIN heap[t].m
                    /\ \A k \in DOMAIN cur[t].callerMap.m \ PropagationKeys :
                          heap[t].m[k] = cur[t].callerMap.m[k]
                    /\ \A k \in DOMAIN heap[t].m \ DOMAIN cur[t].callerMap.m :
                          k \in PropagationKeys
                    /\ config.propagator = "noop" => heap[t] = cur[t].callerMap

C24_Witness ==
    /\ Publishing("main") /\ cur["main"].returned
    /\ cur["main"].in.hasMap
    /\ config.propagator = "tracecontext"
    /\ DOMAIN cur["main"].callerMap.m = {"existing"}
    /\ DOMAIN heap["main"].m = {"existing", TraceParentKey, TraceStateKey}
    /\ prop.phase = "injected" /\ prop.via = "headers" /\ prop.before.nil

====
